---------------------------- MODULE Spec2Model ----------------------------
(***************************************************************************)
(* Model of the two enclave helpers of enclave-aws-nitro/enclave:          *)
(*                                                                         *)
(*   nsm-ioctl.c      AttestationRequestProxy: stdin -> ioctl(/dev/nsm)    *)
(*                    -> stdout, one shot.                                 *)
(*   vsock-connect.c  DuplexStreamBridge: poll loop copying stdin ->       *)
(*                    socket and socket -> stdout.                         *)
(*                                                                         *)
(* Each system call of a main() is one action; the kernel's possible       *)
(* answers (short reads, partial writes, errors) are the nondeterminism.   *)
(* Buffer sizes are scaled down (see the constants below); every length    *)
(* and offset is counted in bytes of the scaled sizes.                     *)
(***************************************************************************)
EXTENDS Integers, Sequences, FiniteSets

(***************************************************************************)
(* Program constants, scaled: nsm-ioctl.c has MAX_REQUEST 4096 and         *)
(* MAX_RESPONSE 16384, vsock-connect.c has BUF_SIZE 65536.  Only their     *)
(* role as capacities matters to the code, so the model keeps the role     *)
(* and shrinks the number.                                                 *)
(***************************************************************************)
MAX_REQUEST == 4

MAX_RESPONSE == 3

BUF_SIZE == 2

(***************************************************************************)
(* Bounds of the environment.                                              *)
(***************************************************************************)
\* longest standard input offered to nsm-ioctl
MaxStdin == 5

\* readable bytes of the stack that follow resp_buf before the mapping ends
OobMax == 1

\* vsock-connect is started with argc in 1..MaxArgc
MaxArgc == 4

\* bytes the writer of standard input supplies to vsock-connect
MaxIn == 4

\* bytes the remote sends when it is not an echo
MaxPeer == 2

\* capacity of the socket's buffer, each direction
SockCap == 1

\* unsigned char, two values of it
Byte == {0, 1}

Min(a, b) == IF a < b THEN a ELSE b

Zeros(k) == [i \in 1..k |-> 0]

\* all byte sequences of length 0..k
RECURSIVE SeqsUpTo(_)
SeqsUpTo(k) ==
  IF k = 0 THEN {<<>>}
  ELSE LET S == SeqsUpTo(k - 1)
       IN S \cup {Append(s, b) : s \in {t \in S : Len(t) = k - 1}, b \in Byte}

SeqsOfLen(k) == {s \in SeqsUpTo(k) : Len(s) = k}

IsPrefix(s, t) == Len(s) <= Len(t) /\ SubSeq(t, 1, Len(s)) = s

(***************************************************************************)
(* C integer conversions (LP64).                                           *)
(***************************************************************************)
\* The widths are scaled with the buffers: unsigned int / int have 4 bits
\* here (2^32 in the build), size_t / ssize_t have 8 (2^64 in the build).
UIntMod == 16

SizeMod == 256

\* (int) of an unsigned int
ToInt(u) == IF u >= UIntMod \div 2 THEN u - UIntMod ELSE u

\* (size_t) of a signed long
ToSizeT(x) == x % SizeMod

\* (unsigned int) of a signed long
ToUInt(x) == x % UIntMod

VARIABLES
  \* ---- nsm-ioctl.c ----
  npc,          \* position in main: "read","check","open","ioctl","write","done"
  stdin,        \* the bytes standard input carries (fixed at start)
  stdinPos,     \* how many of them read() has consumed
  req_buf,      \* unsigned char req_buf[MAX_REQUEST]
  req_len,      \* ssize_t req_len
  n,            \* ssize_t n: the last read()/write() result
  resp_buf,     \* unsigned char resp_buf[MAX_RESPONSE]
  iov,          \* struct nsm_iovec: request_len, response_len
  fd,           \* int fd: -2 before open(), -1 failed, >= 0 open, -3 closed
  written,      \* ssize_t written
  stdout,       \* the bytes written to standard output so far
  exitStatus,   \* -1 while running, else the exit status
  hist,         \* history: what the device saw and what failed
  \* ---- vsock-connect.c ----
  bpc,          \* position in main: "args","socket","connect","poll","stdin",
                \*   "wsock","sock","wout","done"
  argc,         \* int argc
  sock,         \* int sock: -2 before socket(), -1 failed, >= 0 open, -3 closed
  fds,          \* struct pollfd fds[2]: fd, revents (a set of flags)
  buf,          \* char buf[BUF_SIZE], shared by both directions
  bn,           \* ssize_t n of the branch being run (0 outside its block)
  bwritten,     \* ssize_t written of that branch (0 outside its block)
  bexit,        \* -1 while running, else the exit status (141: SIGPIPE)
  inData,       \* the bytes supplied on standard input so far
  inPos,        \* how many of them the bridge has read
  inClosed,     \* the writer of standard input has closed it
  inKind,       \* "pipe" or "file": decides what poll reports at end-of-input
  toPeer,       \* bytes in the socket buffer, bridge -> remote
  fromPeer,     \* bytes in the socket buffer, remote -> bridge
  peer,         \* the remote: "open", "halfclosed" (SHUT_WR) or "closed"
  peerBuf,      \* the echo remote's chunk, read and not yet written back
  bhist         \* history: bytes sent, received, written, shutdown calls

nsmVars == <<npc, stdin, stdinPos, req_buf, req_len, n, resp_buf, iov, fd,
             written, stdout, exitStatus, hist>>

brVars == <<bpc, argc, sock, fds, buf, bn, bwritten, bexit, inData, inPos,
            inClosed, inKind, toPeer, fromPeer, peer, peerBuf, bhist>>

vars == <<nsmVars, brVars>>

(***************************************************************************)
(*                          nsm-ioctl.c : main                             *)
(***************************************************************************)
NsmInit ==
  /\ npc = "read"
  /\ stdin \in SeqsUpTo(MaxStdin)
  /\ stdinPos = 0
  /\ req_buf = Zeros(MAX_REQUEST)
  /\ req_len = 0
  /\ n = 0
  /\ resp_buf = Zeros(MAX_RESPONSE)
  /\ iov = [request_len |-> 0, response_len |-> 0]
  /\ fd = -2
  /\ written = 0
  /\ stdout = <<>>
  /\ exitStatus = -1
  /\ hist = [opens |-> 0, ioctls |-> 0, ioctlRc |-> 0,
             devRequest |-> <<>>, devResponse |-> <<>>,
             readError |-> FALSE, writeError |-> FALSE]

\* the count that forgets what is already in the buffer
ReadCountWhole(len) == ToSizeT(MAX_REQUEST)

\* the third argument of read(): (size_t)(MAX_REQUEST - req_len)
ReadCount(len) == ToSizeT(MAX_REQUEST - len)

\* what read(fd, p, count) may return with avail unread bytes on the descriptor
ReadResults(count, avail) ==
  {-1} \cup (IF count = 0 \/ avail = 0 THEN {0} ELSE 1..Min(count, avail))

\* buffer b with data stored from offset off (0-based) on
Store(b, off, data) ==
  [i \in 1..Len(b) |->
     IF i > off /\ i <= off + Len(data) THEN data[i - off] ELSE b[i]]

\* exit(status) / return status from main
Exit(status) ==
  /\ npc' = "done"
  /\ exitStatus' = status

\* a die() that only reports: control goes on at cont
dieReturns(cont) ==
  /\ npc' = cont
  /\ UNCHANGED exitStatus

\* die(msg): perror(msg); exit(1).  cont is where main would go on
die(cont) == Exit(1)

\* while ((n = read(0, req_buf + req_len, MAX_REQUEST - req_len)) > 0) req_len += n;
NsmRead ==
  /\ npc = "read"
  /\ \E r \in ReadResults(ReadCount(req_len), Len(stdin) - stdinPos) :
       /\ n' = r
       /\ IF r > 0
          THEN /\ req_buf' = Store(req_buf, req_len,
                                   SubSeq(stdin, stdinPos + 1, stdinPos + r))
               /\ req_len' = req_len + r
               /\ stdinPos' = stdinPos + r
               /\ UNCHANGED <<npc, hist>>
          ELSE /\ npc' = "check"
               /\ hist' = [hist EXCEPT !.readError = (r < 0)]
               /\ UNCHANGED <<req_buf, req_len, stdinPos>>
  /\ UNCHANGED <<stdin, resp_buf, iov, fd, written, stdout, exitStatus>>
  /\ UNCHANGED brVars

\* the empty-request test with < for <=
EmptyRequestStrict(len) == len < 0

\* if (req_len <= 0)
EmptyRequest(len) == len <= 0

\* lines 57-69: the empty-request test, memset and the descriptor set-up
NsmCheck ==
  /\ npc = "check"
  /\ IF EmptyRequest(req_len)
     THEN /\ Exit(1)
          /\ UNCHANGED <<resp_buf, iov, hist>>
     ELSE /\ resp_buf' = Zeros(MAX_RESPONSE)
          /\ iov' = [request_len |-> ToUInt(req_len), response_len |-> MAX_RESPONSE]
          /\ npc' = "open"
          /\ UNCHANGED exitStatus
          /\ UNCHANGED hist
  /\ UNCHANGED <<stdin, stdinPos, req_buf, req_len, n, fd, written, stdout>>
  /\ UNCHANGED brVars

\* the open test taking only 0 for a failure
OpenFailedZero(d) == d = 0

\* if (fd < 0)
OpenFailed(d) == d < 0

\* lines 71-72: int fd = open("/dev/nsm", O_RDWR); if (fd < 0) die(...)
NsmOpen ==
  /\ npc = "open"
  /\ \E d \in {-1, 3} :
       /\ fd' = d
       /\ hist' = [hist EXCEPT !.opens = @ + 1]
       /\ IF OpenFailed(d)
          THEN die("ioctl")
          ELSE /\ npc' = "ioctl"
               /\ UNCHANGED exitStatus
  /\ UNCHANGED <<stdin, stdinPos, req_buf, req_len, n, resp_buf, iov, written,
                 stdout>>
  /\ UNCHANGED brVars

\* the values the driver may leave in iov.response_len
RespLens == (0..(MAX_RESPONSE + 1)) \cup {UIntMod \div 2, UIntMod - 1}

\* if (ioctl(...) < 0)
IoctlFailed(rc) == rc < 0

\* lines 74-78: ioctl(fd, NSM_IOCTL_CMD, &iov); close(fd); written = 0
NsmIoctl ==
  /\ npc = "ioctl"
  /\ \E rc \in {-1, 0} :
       IF IoctlFailed(rc)
       THEN /\ die("write")
            /\ hist' = [hist EXCEPT !.ioctls = @ + 1, !.ioctlRc = rc,
                          !.devRequest = SubSeq(req_buf, 1, iov.request_len)]
            /\ UNCHANGED <<resp_buf, iov, fd, written>>
       ELSE \E len \in RespLens :
            \E data \in SeqsOfLen(Min(len, iov.response_len)) :
              /\ resp_buf' = Store(resp_buf, 0, data)
              /\ iov' = [iov EXCEPT !.response_len = len]
              /\ fd' = -3
              /\ written' = 0
              /\ npc' = "write"
              /\ hist' = [hist EXCEPT !.ioctls = @ + 1, !.ioctlRc = rc,
                            !.devRequest = SubSeq(req_buf, 1, iov.request_len),
                            !.devResponse = data]
              /\ UNCHANGED exitStatus
  /\ UNCHANGED <<stdin, stdinPos, req_buf, req_len, n, stdout>>
  /\ UNCHANGED brVars

\* the loop test off by one: <= for <
MoreToWriteInclusive(w, rlen) == ToSizeT(w) <= rlen

\* while ((size_t)written < iov.response_len)
MoreToWrite(w, rlen) == ToSizeT(w) < rlen

\* the third argument of write(): (size_t)((int)iov.response_len - written)
WriteCount(rlen, w) == ToSizeT(ToInt(rlen) - w)

\* what write(fd, p, count) may return when readable bytes are mapped at p
WriteResults(count, readable) ==
  {-1, 0} \cup (IF readable <= 0 THEN {} ELSE 1..Min(count, readable))

\* the k bytes at resp_buf, the offset forgotten
ChunkFromStart(mem, w, k) == SubSeq(mem, 1, k)

\* the k bytes at resp_buf + w, mem being resp_buf and what follows it
Chunk(mem, w, k) == SubSeq(mem, w + 1, w + k)

\* if (n <= 0)
WriteFailed(r) == r <= 0

\* lines 79-86: one turn of the write loop, or return 0
NsmWrite ==
  /\ npc = "write"
  /\ IF MoreToWrite(written, iov.response_len)
     THEN \E r \in WriteResults(WriteCount(iov.response_len, written),
                                 MAX_RESPONSE + OobMax - written) :
          \E oob \in SeqsOfLen(OobMax) :
            /\ n' = r
            /\ hist' = [hist EXCEPT !.writeError = (r <= 0)]
            /\ IF WriteFailed(r)
               THEN /\ die("write")
                    /\ UNCHANGED <<written, stdout>>
               ELSE /\ stdout' = stdout \o Chunk(resp_buf \o oob, written, r)
                    /\ written' = written + r
                    /\ UNCHANGED <<npc, exitStatus>>
     ELSE /\ Exit(0)
          /\ UNCHANGED <<n, written, stdout, hist>>
  /\ UNCHANGED <<stdin, stdinPos, req_buf, req_len, resp_buf, iov, fd>>
  /\ UNCHANGED brVars

NsmNext == NsmRead \/ NsmCheck \/ NsmOpen \/ NsmIoctl \/ NsmWrite

(***************************************************************************)
(*                        vsock-connect.c : main                           *)
(***************************************************************************)
BridgeInit ==
  /\ bpc = "args"
  /\ argc \in 1..MaxArgc
  /\ sock = -2
  /\ fds = [i \in {0, 1} |-> [fd |-> -2, revents |-> {}]]
  /\ buf = Zeros(BUF_SIZE)
  /\ bn = 0
  /\ bwritten = 0
  /\ bexit = -1
  /\ inData = <<>>
  /\ inPos = 0
  /\ inClosed = FALSE
  /\ inKind \in {"pipe", "file"}
  /\ toPeer = <<>>
  /\ fromPeer = <<>>
  /\ peer = "open"
  /\ peerBuf = <<>>
  /\ bhist = [sockets |-> 0, connected |-> FALSE, shutdowns |-> 0,
              sockSent |-> <<>>, peerSent |-> <<>>, sockRecv |-> <<>>,
              out |-> <<>>, inReads |-> 0, sawClose |-> FALSE]

\* exit(status) / return status from main
BrExit(status) ==
  /\ bpc' = "done"
  /\ bexit' = status

\* die(msg) of vsock-connect.c: perror(msg); exit(1)
BrDie == BrExit(1)

\* the usage test taking only too few arguments for an error
BadUsageBelow(c) == c < 3

\* if (argc != 3)
BadUsage(c) == c # 3

\* lines 32-38
BrArgs ==
  /\ bpc = "args"
  /\ IF BadUsage(argc)
     THEN BrExit(1)
     ELSE bpc' = "socket" /\ UNCHANGED bexit
  /\ UNCHANGED <<argc, sock, fds, buf, bn, bwritten, inData, inPos, inClosed,
                 inKind, toPeer, fromPeer, peer, peerBuf, bhist>>
  /\ UNCHANGED nsmVars

\* lines 40-41: sock = socket(AF_VSOCK, SOCK_STREAM, 0); if (sock < 0) die
BrSocket ==
  /\ bpc = "socket"
  /\ \E d \in {-1, 3} :
       /\ sock' = d
       /\ bhist' = [bhist EXCEPT !.sockets = @ + 1]
       /\ IF d < 0
          THEN BrDie
          ELSE bpc' = "connect" /\ UNCHANGED bexit
  /\ UNCHANGED <<argc, fds, buf, bn, bwritten, inData, inPos, inClosed, inKind,
                 toPeer, fromPeer, peer, peerBuf>>
  /\ UNCHANGED nsmVars

\* lines 43-56: connect(); fds[0] = stdin, fds[1] = sock, both for POLLIN
BrConnect ==
  /\ bpc = "connect"
  /\ \E rc \in {-1, 0} :
       IF rc < 0
       THEN BrDie /\ UNCHANGED <<fds, bhist>>
       ELSE /\ fds' = [fds EXCEPT ![0].fd = 0, ![1].fd = sock]
            /\ bhist' = [bhist EXCEPT !.connected = TRUE]
            /\ bpc' = "poll"
            /\ UNCHANGED bexit
  /\ UNCHANGED <<argc, sock, buf, bn, bwritten, inData, inPos, inClosed,
                 inKind, toPeer, fromPeer, peer, peerBuf>>
  /\ UNCHANGED nsmVars

\* the revents poll may report for standard input; a negative fd is skipped
StdinEvents ==
  IF fds[0].fd < 0 THEN {{}}
  ELSE IF inPos < Len(inData)
       THEN (IF inClosed /\ inKind = "pipe" THEN {{"POLLIN", "POLLHUP"}}
             ELSE {{"POLLIN"}})
       ELSE IF ~inClosed THEN {{}}
       ELSE IF inKind = "pipe" THEN {{"POLLHUP"}}
       ELSE {{"POLLIN"}}

\* the revents poll may report for the socket
SockEvents ==
  IF peer = "open" THEN (IF fromPeer # <<>> THEN {{"POLLIN"}} ELSE {{}})
  ELSE IF peer = "halfclosed" THEN {{"POLLIN"}}
  ELSE {{"POLLIN", "POLLHUP"}, {"POLLHUP"}}

\* lines 59-60: r = poll(fds, 2, -1); if (r < 0) die.  poll blocks until a
\* descriptor has an event
BrPoll ==
  /\ bpc = "poll"
  /\ \/ BrDie /\ UNCHANGED fds
     \/ \E e0 \in StdinEvents, e1 \in SockEvents :
          /\ e0 \cup e1 # {}
          /\ fds' = [fds EXCEPT ![0].revents = e0, ![1].revents = e1]
          /\ bpc' = "stdin"
          /\ UNCHANGED bexit
  /\ UNCHANGED <<argc, sock, buf, bn, bwritten, inData, inPos, inClosed,
                 inKind, toPeer, fromPeer, peer, peerBuf, bhist>>
  /\ UNCHANGED nsmVars

\* the stdin test passing on any reported event
StdinReadyAnyEvent(revents) == revents # {}

\* if (fds[0].revents & POLLIN)
StdinReady(revents) == "POLLIN" \in revents

\* what read(STDIN_FILENO, buf, BUF_SIZE) may return
StdinReadResults ==
  {-1} \cup (IF inPos < Len(inData) THEN 1..Min(BUF_SIZE, Len(inData) - inPos)
             ELSE IF inClosed THEN {0} ELSE {})

\* the end test taking only an error for the end: < for <=
ReadEndedOnError(k) == k < 0

\* if (n <= 0), both branches
ReadEnded(k) == k <= 0

\* end-of-input taken for the end of the bridge: shutdown, then break
StdinEofBreaks ==
  /\ bhist' = [bhist EXCEPT !.shutdowns = @ + 1, !.inReads = @ + 1]
  /\ fds' = [fds EXCEPT ![0].fd = -1]
  /\ sock' = -3
  /\ BrExit(0)

\* end-of-input that shuts the socket down and keeps standard input polled
StdinEofStillPolled ==
  /\ bhist' = [bhist EXCEPT !.shutdowns = @ + 1, !.inReads = @ + 1]
  /\ bpc' = "sock"
  /\ UNCHANGED <<fds, sock, bexit>>

\* line 65: { shutdown(sock, SHUT_WR); fds[0].fd = -1; }
StdinEof ==
  /\ bhist' = [bhist EXCEPT !.shutdowns = @ + 1, !.inReads = @ + 1]
  /\ fds' = [fds EXCEPT ![0].fd = -1]
  /\ bpc' = "sock"
  /\ UNCHANGED <<sock, bexit>>

\* lines 63-67: the stdin branch up to the write loop
BrStdin ==
  /\ bpc = "stdin"
  /\ IF StdinReady(fds[0].revents)
     THEN \E k \in StdinReadResults :
            /\ IF ReadEnded(k)
               THEN /\ StdinEof
                    /\ bn' = 0
                    /\ UNCHANGED <<buf, inPos, bwritten>>
               ELSE /\ buf' = Store(buf, 0, SubSeq(inData, inPos + 1, inPos + k))
                    /\ bn' = k
                    /\ inPos' = inPos + k
                    /\ bwritten' = 0
                    /\ bhist' = [bhist EXCEPT !.inReads = @ + 1]
                    /\ bpc' = "wsock"
                    /\ UNCHANGED <<fds, sock, bexit>>
     ELSE /\ bpc' = "sock"
          /\ UNCHANGED <<bn, buf, inPos, bwritten, fds, bhist, sock, bexit>>
  /\ UNCHANGED <<argc, inData, inClosed, inKind, toPeer, fromPeer, peer,
                 peerBuf>>
  /\ UNCHANGED nsmVars

\* the k bytes at buf, the offset forgotten
BufChunkFromStart(b, w, k) == SubSeq(b, 1, k)

\* the k bytes at buf + w
BufChunk(b, w, k) == SubSeq(b, w + 1, w + k)

\* while (written < n)
LoopOn(w, k) == w < k

\* if (w <= 0), both write loops
BrWriteFailed(w) == w <= 0

\* what write(sock, p, count) may return; it blocks while the buffer is full
SockWriteResults(count) ==
  IF peer = "closed" THEN {-1}
  ELSE 1..Min(count, SockCap - Len(toPeer))

\* lines 68-72: one write(sock) of the loop.  A write to a closed remote
\* raises SIGPIPE (default: the process is killed) or, with SIGPIPE ignored
\* by the parent, returns EPIPE
BrWriteSock ==
  /\ bpc = "wsock"
  /\ \E w \in SockWriteResults(bn - bwritten) :
       IF BrWriteFailed(w)
       THEN /\ \E st \in {1, 141} : BrExit(st)
            /\ UNCHANGED <<bn, bwritten, toPeer, bhist>>
       ELSE /\ toPeer' = toPeer \o BufChunk(buf, bwritten, w)
            /\ bhist' = [bhist EXCEPT
                           !.sockSent = @ \o BufChunk(buf, bwritten, w)]
            /\ IF LoopOn(bwritten + w, bn)
               THEN bwritten' = bwritten + w /\ UNCHANGED <<bpc, bn>>
               ELSE bwritten' = 0 /\ bn' = 0 /\ bpc' = "sock"
            /\ UNCHANGED bexit
  /\ UNCHANGED <<argc, sock, fds, buf, inData, inPos, inClosed, inKind,
                 fromPeer, peer, peerBuf>>
  /\ UNCHANGED nsmVars

\* the socket test without the hang-up flag
SockReadyPollinOnly(revents) == "POLLIN" \in revents

\* if (fds[1].revents & (POLLIN | POLLHUP))
SockReady(revents) == revents \cap {"POLLIN", "POLLHUP"} # {}

\* what read(sock, buf, BUF_SIZE) may return
SockReadResults ==
  (IF fromPeer # <<>> THEN 1..Min(BUF_SIZE, Len(fromPeer))
   ELSE IF peer # "open" THEN {0} ELSE {})
  \cup (IF peer = "closed" THEN {-1} ELSE {})

\* lines 77-80 and 89-90: the socket branch up to the write loop, or break,
\* close(sock), return 0
BrSock ==
  /\ bpc = "sock"
  /\ IF SockReady(fds[1].revents)
     THEN \E k \in SockReadResults :
            /\ IF ReadEnded(k)
               THEN /\ sock' = -3
                    /\ BrExit(0)
                    /\ bhist' = [bhist EXCEPT !.sawClose = TRUE]
                    /\ UNCHANGED <<bn, buf, fromPeer, bwritten>>
               ELSE /\ buf' = Store(buf, 0, SubSeq(fromPeer, 1, k))
                    /\ bn' = k
                    /\ fromPeer' = SubSeq(fromPeer, k + 1, Len(fromPeer))
                    /\ bhist' = [bhist EXCEPT
                                   !.sockRecv = @ \o SubSeq(fromPeer, 1, k)]
                    /\ bwritten' = 0
                    /\ bpc' = "wout"
                    /\ UNCHANGED <<sock, bexit>>
     ELSE /\ bpc' = "poll"
          /\ UNCHANGED <<bn, buf, fromPeer, bwritten, sock, bexit, bhist>>
  /\ UNCHANGED <<argc, fds, inData, inPos, inClosed, inKind, toPeer, peer,
                 peerBuf>>
  /\ UNCHANGED nsmVars

\* lines 81-85: one write(STDOUT_FILENO) of the loop
BrWriteOut ==
  /\ bpc = "wout"
  /\ \E w \in {-1} \cup (1..(bn - bwritten)) :
       IF BrWriteFailed(w)
       THEN /\ BrDie
            /\ UNCHANGED <<bn, bwritten, bhist>>
       ELSE /\ bhist' = [bhist EXCEPT !.out = @ \o BufChunk(buf, bwritten, w)]
            /\ IF LoopOn(bwritten + w, bn)
               THEN bwritten' = bwritten + w /\ UNCHANGED <<bpc, bn>>
               ELSE bwritten' = 0 /\ bn' = 0 /\ bpc' = "poll"
            /\ UNCHANGED bexit
  /\ UNCHANGED <<argc, sock, fds, buf, inData, inPos, inClosed, inKind,
                 toPeer, fromPeer, peer, peerBuf>>
  /\ UNCHANGED nsmVars

BridgeNext ==
  \/ BrArgs \/ BrSocket \/ BrConnect \/ BrPoll
  \/ BrStdin \/ BrWriteSock \/ BrSock \/ BrWriteOut

(***************************************************************************)
(* The environment of the bridge: the writer of standard input and the     *)
(* remote end of the socket.                                               *)
(***************************************************************************)
BrRunning == bpc # "done"

\* The bridge never looks at a byte's value, so each byte of a run is given
\* a value of its own: the i-th byte of standard input is i, the i-th byte
\* the remote sends on its own is 100 + i, and buf starts as zeros, a value
\* no stream carries.  A dropped, repeated, reordered or misdirected byte
\* then shows in the sequences.
InByte(i) == i

PeerByte(i) == 100 + i

Connected == bhist.connected /\ BrRunning

\* the writer of standard input supplies one more byte
StdinSupply ==
  /\ BrRunning /\ ~inClosed /\ Len(inData) < MaxIn
  /\ inData' = Append(inData, InByte(Len(inData) + 1))
  /\ UNCHANGED <<bpc, argc, sock, fds, buf, bn, bwritten, bexit, inPos,
                 inClosed, inKind, toPeer, fromPeer, peer, peerBuf, bhist>>
  /\ UNCHANGED nsmVars

\* the writer of standard input closes its end
StdinClose ==
  /\ BrRunning /\ ~inClosed
  /\ inClosed' = TRUE
  /\ UNCHANGED <<bpc, argc, sock, fds, buf, bn, bwritten, bexit, inData, inPos,
                 inKind, toPeer, fromPeer, peer, peerBuf, bhist>>
  /\ UNCHANGED nsmVars

StdinEnv == StdinSupply \/ StdinClose

\* the remote takes bytes out of the socket buffer
PeerRecv ==
  /\ Connected /\ peer # "closed" /\ toPeer # <<>>
  /\ \E k \in 1..Len(toPeer) : toPeer' = SubSeq(toPeer, k + 1, Len(toPeer))
  /\ UNCHANGED <<bpc, argc, sock, fds, buf, bn, bwritten, bexit, inData, inPos,
                 inClosed, inKind, fromPeer, peer, peerBuf, bhist>>
  /\ UNCHANGED nsmVars

\* the remote sends a byte of its own choice
PeerSend ==
  /\ Connected /\ peer = "open"
  /\ Len(fromPeer) < SockCap /\ Len(bhist.peerSent) < MaxPeer
  /\ LET b == PeerByte(Len(bhist.peerSent) + 1)
     IN /\ fromPeer' = Append(fromPeer, b)
        /\ bhist' = [bhist EXCEPT !.peerSent = Append(@, b)]
  /\ UNCHANGED <<bpc, argc, sock, fds, buf, bn, bwritten, bexit, inData, inPos,
                 inClosed, inKind, toPeer, peer, peerBuf>>
  /\ UNCHANGED nsmVars

\* the remote shuts down its sending side
PeerShutdown ==
  /\ Connected /\ peer = "open"
  /\ peer' = "halfclosed"
  /\ UNCHANGED <<bpc, argc, sock, fds, buf, bn, bwritten, bexit, inData, inPos,
                 inClosed, inKind, toPeer, fromPeer, peerBuf, bhist>>
  /\ UNCHANGED nsmVars

\* the remote closes the connection
PeerClose ==
  /\ Connected /\ peer # "closed"
  /\ peer' = "closed"
  /\ UNCHANGED <<bpc, argc, sock, fds, buf, bn, bwritten, bexit, inData, inPos,
                 inClosed, inKind, toPeer, fromPeer, peerBuf, bhist>>
  /\ UNCHANGED nsmVars

PeerNext == PeerRecv \/ PeerSend \/ PeerShutdown \/ PeerClose

\* the echo remote reads one chunk
EchoRead ==
  /\ Connected /\ peer = "open" /\ peerBuf = <<>> /\ toPeer # <<>>
  /\ \E k \in 1..Len(toPeer) :
       /\ peerBuf' = SubSeq(toPeer, 1, k)
       /\ toPeer' = SubSeq(toPeer, k + 1, Len(toPeer))
  /\ UNCHANGED <<bpc, argc, sock, fds, buf, bn, bwritten, bexit, inData, inPos,
                 inClosed, inKind, fromPeer, peer, bhist>>
  /\ UNCHANGED nsmVars

\* the echo remote writes its chunk back; a write blocks while the buffer
\* towards the bridge is full
EchoWrite ==
  /\ Connected /\ peer = "open" /\ peerBuf # <<>>
  /\ \E k \in 1..Min(Len(peerBuf), SockCap - Len(fromPeer)) :
       /\ fromPeer' = fromPeer \o SubSeq(peerBuf, 1, k)
       /\ bhist' = [bhist EXCEPT !.peerSent = @ \o SubSeq(peerBuf, 1, k)]
       /\ peerBuf' = SubSeq(peerBuf, k + 1, Len(peerBuf))
  /\ UNCHANGED <<bpc, argc, sock, fds, buf, bn, bwritten, bexit, inData, inPos,
                 inClosed, inKind, toPeer, peer>>
  /\ UNCHANGED nsmVars

\* the echo remote reads end-of-stream after the bridge's shutdown and closes
EchoClose ==
  /\ Connected /\ peer = "open" /\ peerBuf = <<>> /\ toPeer = <<>>
  /\ bhist.shutdowns > 0
  /\ peer' = "closed"
  /\ UNCHANGED <<bpc, argc, sock, fds, buf, bn, bwritten, bexit, inData, inPos,
                 inClosed, inKind, toPeer, fromPeer, peerBuf, bhist>>
  /\ UNCHANGED nsmVars

EchoNext == EchoRead \/ EchoWrite \/ EchoClose

(***************************************************************************)
(*                            Specifications                               *)
(***************************************************************************)
\* the other program, not started
NsmIdle ==
  /\ npc = "done" /\ stdin = <<>> /\ stdinPos = 0 /\ req_buf = <<>>
  /\ req_len = 0 /\ n = 0 /\ resp_buf = <<>>
  /\ iov = [request_len |-> 0, response_len |-> 0]
  /\ fd = -2 /\ written = 0 /\ stdout = <<>> /\ exitStatus = -1
  /\ hist = [opens |-> 0, ioctls |-> 0, ioctlRc |-> 0,
             devRequest |-> <<>>, devResponse |-> <<>>,
             readError |-> FALSE, writeError |-> FALSE]

BridgeIdle ==
  /\ bpc = "done" /\ argc = 0 /\ sock = -2
  /\ fds = [i \in {0, 1} |-> [fd |-> -2, revents |-> {}]]
  /\ buf = <<>> /\ bn = 0 /\ bwritten = 0 /\ bexit = -1
  /\ inData = <<>> /\ inPos = 0 /\ inClosed = FALSE /\ inKind = "file"
  /\ toPeer = <<>> /\ fromPeer = <<>> /\ peer = "open" /\ peerBuf = <<>>
  /\ bhist = [sockets |-> 0, connected |-> FALSE, shutdowns |-> 0,
              sockSent |-> <<>>, peerSent |-> <<>>, sockRecv |-> <<>>,
              out |-> <<>>, inReads |-> 0, sawClose |-> FALSE]

InitNsm == NsmInit /\ BridgeIdle

InitBridge == BridgeInit /\ NsmIdle

BridgeStep == BridgeNext \/ StdinEnv \/ PeerNext

EchoStep == BridgeNext \/ StdinEnv \/ EchoNext

\* nsm-ioctl alone
SpecNsm == InitNsm /\ [][NsmNext]_vars

\* vsock-connect with a remote that sends, shuts down and closes as it likes
SpecBridge == InitBridge /\ [][BridgeStep]_vars

\* vsock-connect with an echo remote
SpecEcho == InitBridge /\ [][EchoStep]_vars

\* SpecBridge with the bridge process scheduled again and again: a system
\* call of main that can return does return
FairBridge == SpecBridge /\ WF_vars(BridgeNext)

(***************************************************************************)
(*                    Claims about nsm-ioctl.c (SpecNsm)                   *)
(***************************************************************************)
NsmDone == npc = "done"

IoctlOk == hist.ioctls >= 1 /\ hist.ioctlRc = 0

\* the response the driver reported, when it fits the buffer
Response == SubSeq(resp_buf, 1, iov.response_len)

\* C1: a request of 1..MAX_REQUEST bytes, read in any chunks, reaches the
\* device whole; when open and ioctl succeed with a response of N <=
\* MAX_RESPONSE bytes and no write fails, the process ends with exactly those
\* N bytes on standard output, in order, and exit status 0.
C1_ResponseDelivered ==
  (/\ Len(stdin) \in 1..MAX_REQUEST
   /\ IoctlOk
   /\ iov.response_len <= MAX_RESPONSE)
  => /\ ~hist.readError => hist.devRequest = stdin
     /\ hist.devResponse = Response
     /\ (NsmDone /\ ~hist.writeError) => (stdout = Response /\ exitStatus = 0)
     /\ (NsmDone /\ exitStatus = 0) => stdout = Response

\* C1 witness: a full-size request, a full-size response written in several
\* partial writes, exit 0
C1_Witness ==
  /\ NsmDone /\ exitStatus = 0
  /\ Len(stdin) = MAX_REQUEST /\ hist.devRequest = stdin
  /\ iov.response_len = MAX_RESPONSE
  /\ stdout = Response /\ stdout[1] # stdout[MAX_RESPONSE]
  /\ n = 1

\* C2 (as claimed): at exit standard output holds the complete response or
\* nothing, and a run that exits 1 has written nothing.
C2_NoPartialOutput ==
  (NsmDone /\ iov.response_len <= MAX_RESPONSE)
  => /\ stdout = <<>> \/ (IoctlOk /\ stdout = Response)
     /\ exitStatus = 1 => stdout = <<>>

\* C2 (amended): standard output is always a prefix of the reported response;
\* it is the complete response at exit 0, empty when the run failed before the
\* write loop, and a proper prefix (possibly non-empty) when a write failed.
C2_OutputIsPrefix ==
  /\ stdout # <<>> => IoctlOk
  /\ (IoctlOk /\ iov.response_len <= MAX_RESPONSE)
     => /\ IsPrefix(stdout, Response)
        /\ (NsmDone /\ exitStatus = 0) => stdout = Response
        /\ (NsmDone /\ exitStatus = 1)
           => (hist.writeError /\ Len(stdout) < iov.response_len)
  /\ (NsmDone /\ ~IoctlOk) => (exitStatus = 1 /\ stdout = <<>>)

\* C2 witness: exit status 1 with part of the response already written
C2_Witness ==
  /\ NsmDone /\ exitStatus = 1
  /\ iov.response_len = MAX_RESPONSE
  /\ stdout # <<>> /\ Len(stdout) < MAX_RESPONSE

\* C3 (as claimed): with more than MAX_REQUEST bytes on standard input the
\* process exits 1, issues no ioctl and writes nothing (stated for the runs
\* in which no read fails, so that the oversize request is what decides it).
C3_RequestTooLarge ==
  (Len(stdin) > MAX_REQUEST /\ ~hist.readError)
  => /\ hist.ioctls = 0
     /\ stdout = <<>>
     /\ NsmDone => exitStatus = 1

\* C4: when the read loop ends with zero bytes read, the process exits 1,
\* writes nothing, and neither opens the device nor issues the ioctl.
C4_EmptyInput ==
  /\ Len(stdin) = 0 => req_len = 0
  /\ (npc # "read" /\ req_len = 0)
     => /\ npc \in {"check", "done"}
        /\ hist.opens = 0 /\ fd = -2
        /\ hist.ioctls = 0
        /\ stdout = <<>>
        /\ NsmDone => exitStatus = 1

\* C4 witness: empty standard input (read returned 0 at once), exited
C4_Witness ==
  NsmDone /\ Len(stdin) = 0 /\ n = 0 /\ exitStatus = 1

\* C5: a failed open or a failed ioctl ends the process at once with exit
\* status 1 and nothing on standard output; after a failed open there is no
\* ioctl.
C5_DeviceFailure ==
  /\ (hist.opens >= 1 /\ fd = -1)
     => (NsmDone /\ exitStatus = 1 /\ stdout = <<>> /\ hist.ioctls = 0)
  /\ (hist.ioctls >= 1 /\ hist.ioctlRc < 0)
     => (NsmDone /\ exitStatus = 1 /\ stdout = <<>>)

\* C5 witness: the ioctl failed after a successful open
C5_Witness ==
  NsmDone /\ hist.ioctls = 1 /\ hist.ioctlRc < 0 /\ hist.opens = 1

\* the part of C6 about the order and the number of the steps: at most one
\* open and one ioctl, the ioctl after the read loop has ended with a
\* non-empty request and after a successful open, no step after a failure,
\* standard output written only after a successful ioctl
SingleCycleOrder ==
  /\ hist.opens <= 1
  /\ hist.ioctls <= 1
  /\ hist.opens >= 1 => (npc \notin {"read", "check"} /\ req_len >= 1)
  /\ hist.ioctls >= 1
     => /\ npc \in {"write", "done"}
        /\ req_len >= 1 /\ hist.devRequest = SubSeq(req_buf, 1, req_len)
        /\ hist.opens = 1 /\ fd # -1
  /\ (fd = -1 \/ hist.ioctlRc < 0 \/ hist.writeError) => NsmDone
  /\ stdout # <<>> => IoctlOk
  /\ exitStatus # -1 <=> NsmDone

\* every byte of the request on standard input has been read
FullyRead == stdinPos = Len(stdin)

\* C6 (as claimed): one request/response cycle at most, nothing retried,
\* output only after a successful ioctl, and the ioctl issued only after a
\* non-empty request was fully read and the open succeeded.
C6_SingleCycle ==
  /\ SingleCycleOrder
  /\ hist.ioctls >= 1 => FullyRead

(***************************************************************************)
(*            Claims about vsock-connect.c (SpecBridge, SpecEcho)          *)
(***************************************************************************)
BrDone == bpc = "done"

\* standard input has been taken out of the poll set (STDIN_HALF_CLOSED)
HalfClosed == bhist.shutdowns >= 1

\* the part of the chunk in buf that the running write loop has yet to write
Pending == BufChunk(buf, bwritten, bn - bwritten)

BridgeBlocked == bpc = "wsock" /\ peer = "open" /\ Len(toPeer) = SockCap

\* the echo remote is blocked writing its chunk back
EchoBlocked == peerBuf # <<>> /\ Len(fromPeer) = SockCap

\* C8 (as claimed): with an echo remote the bridge is never blocked writing
\* to the socket while the remote is blocked writing back to the bridge.
C8_NoWriteDeadlock == ~(BridgeBlocked /\ EchoBlocked)

CloseReported ==
  bpc = "stdin" /\ "POLLHUP" \in fds[1].revents /\ fromPeer = <<>>

\* C10 (as claimed): once poll has reported the remote's close, also together
\* with standard input ready, no further byte of standard input is read or
\* forwarded.
C10_NoReadAfterClose ==
  [][CloseReported => (inPos' = inPos /\ bhist'.sockSent = bhist.sockSent)]_vars

\* a step of the bridge that ends the process
BrEnds == bpc # "done" /\ bpc' = "done"

\* C11 (as claimed): once the remote has closed, the step that ends the
\* bridge leaves the socket closed and exit status 0, whatever the state of
\* standard input; it is never an exit with status 1 (or a kill).  A failing
\* poll and a failing write to standard output are left aside, so that only
\* the remote's close decides the exit.
C11_RemoteCloseExitsZero ==
  [][(peer = "closed" /\ bpc \notin {"poll", "wout"} /\ BrEnds)
       => (bexit' = 0 /\ sock' = -3)]_vars

\* the bridge is inside the relay loop
InRelayLoop == bpc \in {"poll", "stdin", "wsock", "sock", "wout"}

\* some relaying has happened: a read of standard input or of the socket, or
\* a byte written to the socket or to standard output
Relayed ==
  \/ bhist.inReads > 0 \/ inPos > 0 \/ bhist.sockSent # <<>>
  \/ bhist.sockRecv # <<>> \/ bhist.out # <<>>
  \/ bhist.sawClose \/ bhist.shutdowns > 0

\* C12: a socket is created only with exactly two arguments (argc = 3); the
\* relay loop is entered, and anything relayed, only after connect succeeded;
\* a wrong argument count, a failed socket() and a failed connect() each end
\* the process with status 1 and nothing relayed.
C12_StartUp ==
  /\ (bhist.sockets >= 1 \/ sock # -2) => argc = 3
  /\ bhist.sockets <= 1
  /\ (InRelayLoop \/ Relayed) => (bhist.connected /\ argc = 3 /\ sock # -1)
  /\ (argc # 3 /\ bpc # "args")
       => (BrDone /\ bexit = 1 /\ bhist.sockets = 0 /\ sock = -2)
  /\ sock = -1 => (BrDone /\ bexit = 1)
  /\ (BrDone /\ ~bhist.connected) => (bexit = 1 /\ ~Relayed)

\* C12 witness: started with three arguments and standard input already
\* holding data; ended with status 1, no socket created
C12_Witness ==
  /\ BrDone /\ argc = 4 /\ bexit = 1 /\ bhist.sockets = 0 /\ inData # <<>>

\* C12 witness of the other case: connect failed on a created socket
C12_ConnectFailed ==
  /\ BrDone /\ argc = 3 /\ sock = 3 /\ ~bhist.connected /\ bexit = 1

\* C13: once the remote has closed the connection, a poll that returns
\* reports the socket with a flag the socket branch services, and the bridge,
\* scheduled fairly and with standard output taking its writes, eventually
\* leaves the loop and the process ends.
C13_EndsAfterRemoteClose ==
  /\ [][(bpc = "poll" /\ bpc' = "stdin" /\ peer = "closed")
          => SockReady(fds'[1].revents)]_vars
  /\ (peer = "closed") ~> BrDone

\* C13 witness: the close was reported as a hang-up alone, with standard
\* input still open and idle; the bridge left the loop and ended
C13_Witness ==
  /\ BrDone /\ bexit = 0 /\ sock = -3 /\ peer = "closed"
  /\ fds[1].revents = {"POLLHUP"} /\ fds[0].fd = 0 /\ ~inClosed

\* C14: after a read of standard input returned <= 0 the socket's write half
\* has been shut down exactly once; standard input is out of the poll set
\* (its fd negative, no event reported for it), is never read again, and no
\* further byte goes to the socket; the socket stays in the poll set while
\* the bridge runs.
C14_HalfClosePermanent ==
  /\ [](HalfClosed
         => /\ bhist.shutdowns = 1
            /\ fds[0].fd = -1
            /\ fds[1].fd = 3 /\ (BrRunning => sock = fds[1].fd)
            /\ bpc # "wsock"
            /\ bpc = "stdin" => ~StdinReady(fds[0].revents))
  /\ [][HalfClosed
          => /\ bhist'.shutdowns = bhist.shutdowns
             /\ bhist'.inReads = bhist.inReads /\ inPos' = inPos
             /\ bhist'.sockSent = bhist.sockSent /\ toPeer' \in
                  {SubSeq(toPeer, k + 1, Len(toPeer)) : k \in 0..Len(toPeer)}
             /\ fds'[0].fd = -1 /\ fds'[0].revents \in {fds[0].revents, {}}
             /\ fds'[1].fd = fds[1].fd]_vars

\* C14 witness: the read failed with input still unread and more of it
\* supplied since; the bridge has polled again and is past the stdin test,
\* relaying a chunk from the socket
C14_Witness ==
  /\ HalfClosed /\ bpc = "wout" /\ inPos < Len(inData)
  /\ fds[0].revents = {} /\ bhist.out # <<>>

\* standard input is at end-of-input: its writer has closed it and the bridge
\* has read (and forwarded) every byte of it
StdinAtEof == inClosed /\ inPos = Len(inData) /\ bpc # "wsock"

\* C15 (as claimed): once standard input is at end-of-input, the bridge in
\* its loop and the remote not closed, the bridge eventually shuts down the
\* socket's write half and takes standard input out of the poll set, with
\* POLLIN as with POLLHUP alone reported for it (or the remote closes, or the
\* process ends).
C15_HalfCloseReached ==
  (StdinAtEof /\ InRelayLoop /\ peer # "closed")
    ~> ((HalfClosed /\ fds[0].fd = -1) \/ peer = "closed" \/ BrDone)

\* poll reported standard input readable / the socket readable or hung up
PolledIn == "POLLIN" \in fds[0].revents

PolledSock == fds[1].revents \cap {"POLLIN", "POLLHUP"} # {}

\* the stdin branch ran in the current turn of the loop: revents are those of
\* the turn's poll, and the branch is past
StdinServiced == bpc \in {"sock", "wout"} /\ PolledIn

\* C16 (as claimed): in a turn of the loop whose stdin branch ran, the socket
\* branch does not: from the socket test the bridge goes back to poll.
C16_OneDirectionPerTurn ==
  [][(bpc = "sock" /\ StdinServiced) => bpc' \in {"sock", "poll"}]_vars

\* C16 (amended): each turn of the loop services standard input first, if and
\* only if poll reported POLLIN for it, and then the socket, if and only if
\* poll reported POLLIN or POLLHUP for it; each direction is serviced at most
\* once per turn and the order is fixed (no read of standard input follows
\* the socket branch before the next poll).
C16_BothInFixedOrder ==
  /\ [][bpc = "stdin"
          => \/ bpc' = "stdin" /\ bhist'.inReads = bhist.inReads
             \/ /\ (bhist'.inReads > bhist.inReads) <=> PolledIn
                /\ bpc' \in {"wsock", "sock"}
                /\ bhist'.sockRecv = bhist.sockRecv]_vars
  /\ [][bpc = "sock"
          => \/ bpc' = "sock"
             \/ /\ PolledSock
                /\ bpc' \in {"wout", "done"}
                /\ bhist'.sockRecv # bhist.sockRecv \/ bhist'.sawClose
             \/ /\ ~PolledSock
                /\ bpc' = "poll" /\ bhist' = bhist]_vars
  /\ [][(bpc = "sock" \/ bpc = "wout")
          => /\ bpc' \in {"sock", "wout", "poll", "done"}
             /\ bhist'.inReads = bhist.inReads
             /\ bhist'.sockSent = bhist.sockSent]_vars
  /\ [][bpc = "wout" => bhist'.sockRecv = bhist.sockRecv]_vars

\* C16 witness: one turn of the loop has forwarded a chunk of standard input
\* to the socket and is writing a chunk of the socket to standard output
C16_Witness ==
  /\ bpc = "wout" /\ StdinServiced
  /\ fds[0].fd = 0 /\ bhist.sockSent # <<>> /\ bn > 0

\* poll reported the hang-up on the socket and the socket branch is next
HangupReported == bpc = "sock" /\ "POLLHUP" \in fds[1].revents

\* C17 (as claimed): when poll reports POLLHUP on the socket, the socket
\* branch of that turn ends the bridge, and no byte is written to standard
\* output from the report to the next poll.
C17_HangupEndsAtOnce ==
  /\ [][HangupReported => bpc' \in {"sock", "done"}]_vars
  /\ [][("POLLHUP" \in fds[1].revents /\ bpc # "poll")
          => bhist'.out = bhist.out]_vars

\* C17 (amended): when poll reports POLLHUP on the socket, the socket branch
\* of that turn reads the socket.  The bridge ends in that turn (socket
\* closed, status 0) exactly when the read returns <= 0, which it does when
\* no data is buffered; data still buffered is read and written to standard
\* output first, in order, and nothing but that data is written.
C17_HangupDrainsThenEnds ==
  /\ [][HangupReported
          => \/ bpc' = "sock" /\ bhist'.out = bhist.out
             \/ /\ fromPeer = <<>>
                /\ bpc' = "done" /\ bexit' = 0 /\ sock' = -3
                /\ bhist'.out = bhist.out /\ bhist'.sockRecv = bhist.sockRecv
             \/ /\ fromPeer # <<>>
                /\ \/ bpc' = "wout" /\ bn' > 0
                      /\ bhist'.sockRecv = bhist.sockRecv \o SubSeq(fromPeer, 1, bn')
                   \/ bpc' = "done" /\ bexit' = 0 /\ sock' = -3
                      /\ peer = "closed" /\ bhist'.sockRecv = bhist.sockRecv]_vars
  /\ []("POLLHUP" \in fds[1].revents
         => /\ peer = "closed"
            /\ IsPrefix(bhist.out, bhist.peerSent)
            /\ bpc = "wout" => bhist.out \o Pending = bhist.sockRecv)

\* C17 witness: the hang-up was reported with data still buffered; the bridge
\* has written that data to standard output after the report and is back at
\* poll, still running
C17_Witness ==
  /\ bpc = "poll" /\ "POLLHUP" \in fds[1].revents
  /\ Len(bhist.out) = MaxPeer /\ fromPeer = <<>>
  /\ bhist.sockRecv = bhist.peerSent

(***************************************************************************)
(*               Further claims about nsm-ioctl.c (SpecNsm)                *)
(***************************************************************************)
\* C18 (as claimed): when a read of standard input has failed, also after
\* some bytes were read, no ioctl is issued, nothing is written to standard
\* output and the process exits with status 1.
C18_ReadFailureTerminal ==
  hist.readError
    => /\ hist.ioctls = 0
       /\ stdout = <<>>
       /\ NsmDone => exitStatus = 1

\* the write loop is about to take, or has taken, bytes from resp_buf + w
\* for w at or beyond the end of resp_buf
BeyondResponseBuffer == written > MAX_RESPONSE \/ Len(stdout) > MAX_RESPONSE

\* C19 (as claimed): whatever the ioctl left in iov.response_len, at most
\* MAX_RESPONSE bytes are written to standard output and each is taken from
\* an offset below MAX_RESPONSE of resp_buf (stated for the runs in which no
\* read fails, so that the response length alone decides it).
C19_WritesWithinBuffer ==
  /\ [](~hist.readError => ~BeyondResponseBuffer)
  /\ [][(~hist.readError /\ stdout' # stdout)
          => (/\ written' <= MAX_RESPONSE
              /\ stdout' = stdout \o SubSeq(resp_buf, written + 1, written'))]_vars

\* C20: in the read loop req_len stays within 0..MAX_REQUEST and counts the
\* bytes consumed; MAX_REQUEST - req_len is never negative, so its conversion
\* to size_t is the same number; every turn of the loop either adds at least
\* one byte or ends the loop, and it ends the loop when the buffer is full
\* or standard input is at its end.
C20_ReadLoopInBounds ==
  /\ [](/\ req_len \in 0..MAX_REQUEST
        /\ req_len = stdinPos /\ stdinPos <= Len(stdin)
        /\ MAX_REQUEST - req_len >= 0
        /\ ReadCount(req_len) = MAX_REQUEST - req_len
        /\ SubSeq(req_buf, 1, req_len) = SubSeq(stdin, 1, stdinPos))
  /\ [][npc = "read"
          => \/ /\ npc' = "read" /\ n' >= 1 /\ req_len' = req_len + n'
                /\ n' <= MAX_REQUEST - req_len
             \/ /\ npc' = "check" /\ n' <= 0 /\ req_len' = req_len]_vars
  /\ [][(npc = "read" /\ (req_len = MAX_REQUEST \/ stdinPos = Len(stdin)))
          => npc' = "check"]_vars

\* C20 witness: more input than the buffer holds; the buffer was filled, the
\* next read was given the count 0, returned 0 and ended the loop
C20_Witness ==
  /\ npc = "check" /\ req_len = MAX_REQUEST /\ n = 0
  /\ Len(stdin) > MAX_REQUEST /\ ReadCount(req_len) = 0

=============================================================================
